---- MODULE Spec2Model ----
(***************************************************************************)
(* WebRAgent: the agent retrieval pipeline (query decomposition, fan-out   *)
(* over a retrieval backend, aggregation, synthesis) of                    *)
(* app/services/{base_agent,agent_search,web_search_agent,deep_web_search} *)
(* _service.py and the collaborators they call, the context formatter of   *)
(* prompt_template_service.py and the text chunker of document_service.py. *)
(*                                                                         *)
(* Text is modelled by TLA+ strings, read character by character with      *)
(* SubSeq, Len and \o.                                                     *)
(***************************************************************************)
EXTENDS Integers, Sequences, FiniteSets, TLC

VARIABLES
    \* one pipeline run (process_query of one of the three agent services)
    pc,                    \* stage the run is in
    backend,               \* "document" | "web" | "deep"
    use_agent,             \* DeepWebSearchService.process_query(use_agent=...)
    strategy,              \* "direct" | "informed"
    parallel_scraping,     \* DeepWebSearchService.parallel_scraping
    query,                 \* the query after _format_conversation_context
    initial,               \* the initial (pre-decomposition) retrieval
    subqueries,            \* the decomposer's output
    idx,                   \* position of the fan-out loop in subqueries
    analyzed_contents,     \* deep web: the summarized pages of the pass under way
    intermediate_results,  \* accumulator: one entry per processed subquery
    all_contexts,          \* accumulator: flattened contexts
    all_analyzed_contents, \* accumulator (deep web): the summarized pages
    synth_input,           \* the (subquery, answer) pairs handed to synthesis
    result,                \* the returned dictionary
    stages,                \* history: the stages entered, in order
    calls,                 \* history: the collaborator calls made, in order
    \* one call of the decomposer on its own
    d_pc, d_query, d_lines, d_out,
    \* one deep-web retrieval (one pass of the loop of _process_with_agent)
    r_pc,                  \* "search" | "scrape" | "analyze" | "answer" | "done"
    r_parallel,            \* DeepWebSearchService.parallel_scraping
    r_max_workers,         \* DeepWebSearchService.max_workers
    r_results,             \* search_results
    r_urls,                \* urls_to_scrape
    r_fetch,               \* per url: state of its fetch and what it returned
    r_scraped,             \* scraped_contents, in the order they were appended
    r_llm,                 \* history: what the provider did on each scraped page
    r_analyzed,            \* analyzed_contents
    r_entry,               \* the entry appended to subquery_results, if any
    r_calls,               \* history: the provider calls made, in order
    \* two pipeline runs in one process
    c_run,                 \* per run: its position and its local variables
    c_acc,                 \* the accumulator lists allocated by the runs
    \* one call of PromptTemplateService.format_context
    f_pc, f_contexts, f_max_length, f_out,
    \* one call of DocumentService.chunk_text
    k_pc,                  \* "call" | "done"
    k_text, k_chunk_size, k_overlap, k_strategy,   \* its arguments
    k_chunks,              \* the list it returned
    k_raised,              \* the exception it raised, "" if none
    k_seeds                \* history: the overlaps the sentence loop carried

pvars == <<pc, backend, use_agent, strategy, parallel_scraping, query, initial,
           subqueries, idx, analyzed_contents, intermediate_results, all_contexts, all_analyzed_contents,
           synth_input, result,
           stages, calls>>
dvars == <<d_pc, d_query, d_lines, d_out>>
rvars == <<r_pc, r_parallel, r_max_workers, r_results, r_urls, r_fetch, r_scraped,
           r_llm, r_analyzed, r_entry, r_calls>>
cvars == <<c_run, c_acc>>
fvars == <<f_pc, f_contexts, f_max_length, f_out>>
kvars == <<k_pc, k_text, k_chunk_size, k_overlap, k_strategy, k_chunks, k_raised,
           k_seeds>>
ext == <<rvars, cvars, fvars, kvars>>
vars == <<pvars, dvars, ext>>

\* the parts of the state a specification does not use stay as they are
RetrievalIdle ==
    /\ r_pc = "idle" /\ r_parallel = TRUE /\ r_max_workers = 1
    /\ r_results = << >> /\ r_urls = << >> /\ r_fetch = << >>
    /\ r_scraped = << >> /\ r_llm = << >> /\ r_analyzed = << >>
    /\ r_entry = << >> /\ r_calls = << >>
ConcurrentIdle == c_run = << >> /\ c_acc = << >>
FormatIdle ==
    /\ f_pc = "idle" /\ f_contexts = << >> /\ f_max_length = 0 /\ f_out = ""
DecomposerIdle ==
    /\ d_pc = "idle" /\ d_query = "q" /\ d_lines = << >>
    /\ d_out = [mode |-> "none"]
ChunkIdle ==
    /\ k_pc = "idle" /\ k_text = "" /\ k_chunk_size = 1 /\ k_overlap = 0
    /\ k_strategy = "" /\ k_chunks = << >> /\ k_raised = "" /\ k_seeds = << >>
ExtIdle == RetrievalIdle /\ ConcurrentIdle /\ FormatIdle /\ ChunkIdle

----------------------------------------------------------------------------
(* Bounds of the model *)

\* most lines in a completion-provider response handed to the decomposer
MaxLines == 5
\* most contexts one document / web retrieval returns
MaxCtx == 2

----------------------------------------------------------------------------
(* Python string primitives *)

CharAt(s, i) == SubSeq(s, i, i)

\* str.strip() and the regex class \s (str.isspace): space, \t, \n, \r, \f
\* and, written as the characters themselves, U+000B, U+001C, U+001D, U+001E,
\* U+001F, U+0085, U+00A0, U+1680. The remaining Unicode spaces (U+2000 to
\* U+200A, U+2028, U+2029, U+202F, U+205F, U+3000) are left out: a string
\* literal cannot hold them.
Whitespace == {" ", "\t", "\n", "\r", "\f", "", "", "", "", "", "", " ", " "}

RECURSIVE SkipSpace(_, _)
SkipSpace(s, i) ==
    IF i <= Len(s) /\ CharAt(s, i) \in Whitespace THEN SkipSpace(s, i + 1) ELSE i

RECURSIVE SkipSpaceBack(_, _)
SkipSpaceBack(s, j) ==
    IF j >= 1 /\ CharAt(s, j) \in Whitespace THEN SkipSpaceBack(s, j - 1) ELSE j

\* s.strip()
strip(s) ==
    LET a == SkipSpace(s, 1)
        b == SkipSpaceBack(s, Len(s))
    IN  IF a > b THEN "" ELSE SubSeq(s, a, b)

\* s.split('\n'): the pieces between newlines; '' splits to ['']
RECURSIVE SplitFrom(_, _, _)
SplitFrom(s, start, i) ==
    IF i > Len(s) THEN << SubSeq(s, start, Len(s)) >>
    ELSE IF CharAt(s, i) = "\n"
         THEN << SubSeq(s, start, i - 1) >> \o SplitFrom(s, i + 1, i + 1)
         ELSE SplitFrom(s, start, i + 1)

split_newline(s) == SplitFrom(s, 1, 1)

\* s.startswith(p)
startswith(s, p) == Len(s) >= Len(p) /\ SubSeq(s, 1, Len(p)) = p

\* '\n'.join(lines)
RECURSIVE JoinLines(_)
JoinLines(ls) ==
    IF ls = << >> THEN ""
    ELSE IF Len(ls) = 1 THEN ls[1]
    ELSE ls[1] \o "\n" \o JoinLines(Tail(ls))

----------------------------------------------------------------------------
(* BaseAgentService._parse_subqueries *)

\* The character class [-â€¢*] of the bullet regex: the source holds the
\* bullet sign mis-encoded as three characters, so the class is these five.
BulletChars == {"-", "â", "€", "¢", "*"}

\* re.sub(r'^\s*[-â€¢*]\s*', '', line): optional whitespace, ONE marker,
\* optional whitespace, removed from the start; no marker, no change.
sub_bullet(line) ==
    LET m == SkipSpace(line, 1)
    IN  IF m <= Len(line) /\ CharAt(line, m) \in BulletChars
        THEN SubSeq(line, SkipSpace(line, m + 1), Len(line))
        ELSE line

cleaned_line(line) == strip(sub_bullet(line))

RECURSIVE KeepNonEmpty(_)
KeepNonEmpty(ls) ==
    IF ls = << >> THEN << >>
    ELSE LET c == cleaned_line(Head(ls))
         IN  (IF c # "" THEN << c >> ELSE << >>) \o KeepNonEmpty(Tail(ls))

parse_subqueries(response) == KeepNonEmpty(split_newline(strip(response)))

----------------------------------------------------------------------------
(* Python calls: a call returns a value or raises *)

Ret(v) == [raised |-> FALSE, value |-> v]
Raise == [raised |-> TRUE, value |-> "exception"]

(* LLMService.generate_response: what the provider does is the outcome,    *)
(* [kind |-> "text", text |-> t] or [kind |-> "raise", text |-> message]   *)
generate_response_propagating(outcome) ==
    IF outcome.kind = "raise" THEN Raise ELSE Ret(outcome.text)

generate_response(outcome) ==
    IF outcome.kind = "raise"
    THEN Ret("Error generating response: " \o outcome.text)
    ELSE Ret(outcome.text)

ProviderError == [kind |-> "raise", text |-> "boom"]
ProviderText(t) == [kind |-> "text", text |-> t]

----------------------------------------------------------------------------
(* BaseAgentService._decompose_query / _decompose_query_informed *)

decompose_query_no_fallback(q, outcome, is_web_search) ==
    LET response == generate_response(outcome)
    IN  IF response.raised THEN Raise
        ELSE Ret(parse_subqueries(response.value))

decompose_query(q, outcome, is_web_search) ==
    LET response == generate_response(outcome)
    IN  IF response.raised THEN Raise
        ELSE LET parsed == parse_subqueries(response.value)
             IN  IF parsed = << >> THEN Ret(<< q >>) ELSE Ret(parsed)

default_followups_document_only(q, is_web_search) ==
    << "What additional details can be found about " \o q \o "?",
       "Are there any alternative perspectives on " \o q \o "?" >>

default_followups(q, is_web_search) ==
    IF is_web_search
    THEN << q \o " latest information", q \o " alternative perspectives" >>
    ELSE << "What additional details can be found about " \o q \o "?",
            "Are there any alternative perspectives on " \o q \o "?" >>

decompose_query_informed(q, outcome, is_web_search) ==
    LET response == generate_response(outcome)
    IN  IF response.raised THEN Raise
        ELSE LET parsed == parse_subqueries(response.value)
             IN  IF parsed = << >> THEN Ret(default_followups(q, is_web_search))
                 ELSE Ret(parsed)

----------------------------------------------------------------------------
(* BaseAgentService._format_conversation_context *)

\* str.capitalize() on the role names a conversation holds
capitalize(role) ==
    CASE role = "user" -> "User"
      [] role = "assistant" -> "Assistant"
      [] role = "system" -> "System"
      [] OTHER -> role

\* conversation_context[-3:]
last3(msgs) == IF Len(msgs) <= 3 THEN msgs ELSE SubSeq(msgs, Len(msgs) - 2, Len(msgs))

RECURSIVE FormatTurns(_)
FormatTurns(msgs) ==
    IF msgs = << >> THEN ""
    ELSE (IF Head(msgs).role # "system"
          THEN capitalize(Head(msgs).role) \o ": " \o Head(msgs).content \o "\n"
          ELSE "") \o FormatTurns(Tail(msgs))

format_conversation_context(q, conversation_context) ==
    IF Len(conversation_context) > 0
    THEN "Previous conversation:\n" \o FormatTurns(last3(conversation_context))
         \o "\n\nConsidering the conversation above, answer this follow-up question: "
         \o q
    ELSE q

----------------------------------------------------------------------------
(* Retrieval backends; relevance scores are in hundredths (0.98 is 98) *)

\* str(i) for the ranks the model uses
Digit(i) ==
    CASE i = 1 -> "1" [] i = 2 -> "2" [] i = 3 -> "3" [] i = 4 -> "4"
      [] i = 5 -> "5" [] i = 6 -> "6" [] i = 7 -> "7" [] i = 8 -> "8"
      [] OTHER -> "9"

ModelInfo == [provider |-> "OpenAI", model |-> "gpt-3.5-turbo"]

(* QdrantService.search: the hits of the index, [] on any exception.      *)
(* outcome: [kind |-> "hits" | "raise" | "no_collection", n |-> count]     *)
qdrant_search(outcome, q) ==
    IF outcome.kind = "raise" THEN << >>
    ELSE [i \in 1..outcome.n |->
            [score |-> 100 - i,
             payload |-> [document_title |-> "doc" \o Digit(i),
                          content |-> q \o "#" \o Digit(i)]]]

\* DocumentService.search_documents
search_documents(outcome, q) ==
    IF outcome.kind = "no_collection" THEN [results |-> << >>]
    ELSE LET hits == qdrant_search(outcome, q)
         IN  [results |-> [i \in 1..Len(hits) |->
                [score |-> hits[i].score,
                 document_title |-> hits[i].payload.document_title,
                 content |-> hits[i].payload.content]]]

\* RAGService.process_query (no conversation context: the agent passes none)
rag_process_query(search_outcome, llm_outcome, q) ==
    LET res == search_documents(search_outcome, q).results
        contexts == [i \in 1..Len(res) |->
                        [document_title |-> res[i].document_title,
                         content |-> res[i].content,
                         score |-> res[i].score]]
        llm_response == generate_response(llm_outcome)
    IN  IF llm_response.raised THEN Raise
        ELSE Ret([response |-> llm_response.value, contexts |-> contexts])

(* SearXNGService.search: [] on a non-200 status, on unparsable JSON and   *)
(* on any exception.                                                       *)
(* outcome: [kind |-> "hits" | "http_error" | "raise", n |-> count]        *)
searxng_search(outcome, q) ==
    IF outcome.kind # "hits" THEN << >>
    ELSE [i \in 1..outcome.n |->
            [title |-> "page" \o Digit(i),
             url |-> "u" \o Digit(i) \o "?" \o q,
             snippet |-> q \o "#" \o Digit(i),
             score |-> 95]]

\* SearXNGService.process_query (no conversation context)
searxng_process_query(search_outcome, llm_outcome, q) ==
    LET res == searxng_search(search_outcome, q)
        contexts == [i \in 1..Len(res) |->
                        [document_title |-> res[i].title,
                         content |-> res[i].snippet,
                         score |-> res[i].score,
                         file_path |-> "",
                         url |-> res[i].url,
                         source_type |-> "web"]]
        response == generate_response(llm_outcome)
    IN  IF response.raised THEN Raise
        ELSE Ret([response |-> response.value, contexts |-> contexts])

----------------------------------------------------------------------------
(* Deep web search: fetch, summarize *)

\* self.max_results_to_scrape: the environment setting DEEP_SEARCH_MAX_URLS
\* (5 when unset); the modelled deployment sets it to 2
max_results_to_scrape == 2

None == [none |-> TRUE]

(* WebScraperService.scrape_url; outcome "ok" | "nonhtml" | "error"        *)
scrape_url(outcome, url) ==
    CASE outcome = "ok" ->
            [url |-> url, title |-> "T " \o url, content |-> "C " \o url,
             success |-> TRUE]
      [] outcome = "nonhtml" ->
            [url |-> url, title |-> url, content |-> "[Non-HTML content: ]",
             success |-> FALSE]
      [] OTHER -> None

\* every result that is not None
succeeded_any(content) == content # None

\* if result and result.get('success', False)
Succeeded(content) == content # None /\ content.success

\* urls[:n]
Take(s, n) == IF Len(s) <= n THEN s ELSE SubSeq(s, 1, n)

\* WebScraperService.scrape_urls: one after the other, in list order
RECURSIVE scrape_urls_sequential(_, _, _)
scrape_urls_sequential(urls, outcomes, i) ==
    IF i > Len(urls) THEN << >>
    ELSE LET r == scrape_url(outcomes[i], urls[i])
         IN  (IF Succeeded(r) THEN << r >> ELSE << >>)
             \o scrape_urls_sequential(urls, outcomes, i + 1)

\* the as_completed loop: results are appended in completion order
RECURSIVE scrape_urls_completed(_, _, _, _)
scrape_urls_completed(urls, outcomes, order, k) ==
    IF k > Len(order) THEN << >>
    ELSE LET r == scrape_url(outcomes[order[k]], urls[order[k]])
         IN  (IF Succeeded(r) THEN << r >> ELSE << >>)
             \o scrape_urls_completed(urls, outcomes, order, k + 1)

(* DeepWebSearchService._scrape_urls; order is the order in which the      *)
(* pool's fetches complete                                                 *)
scrape_urls(parallel, urls, outcomes, order) ==
    IF parallel /\ Len(urls) > 1
    THEN scrape_urls_completed(urls, outcomes, order, 1)
    ELSE scrape_urls_sequential(Take(urls, max_results_to_scrape), outcomes, 1)

\* content[:500] + "..." if len(content) > 500 else content
original_content(content) ==
    IF Len(content) > 500 THEN SubSeq(content, 1, 500) \o "..." ELSE content

(* DeepWebSearchService._analyze_contents; llm_outcomes[i] is what the     *)
(* provider does on the i-th page                                          *)
RECURSIVE analyze_contents(_, _, _)
analyze_contents(scraped, llm_outcomes, i) ==
    IF i > Len(scraped) THEN << >>
    ELSE LET analysis == generate_response(llm_outcomes[i])
         IN  (IF analysis.raised THEN << >>
              ELSE << [url |-> scraped[i].url,
                       title |-> scraped[i].title,
                       original_content |-> original_content(scraped[i].content),
                       analysis |-> analysis.value] >>)
             \o analyze_contents(scraped, llm_outcomes, i + 1)

\* DeepWebSearchService._create_contexts (document_id, a hash of the url, left out)
create_contexts(analyzed) ==
    [i \in 1..Len(analyzed) |->
        [document_title |-> analyzed[i].title,
         content |-> analyzed[i].analysis,
         score |-> 98,
         file_path |-> "",
         url |-> analyzed[i].url,
         source_type |-> "deep_web"]]

\* DeepWebSearchService._analyze_subquery
analyze_subquery(sq, llm_outcome) ==
    LET response == generate_response(llm_outcome)
    IN  IF response.raised THEN "Error analyzing content for '" \o sq \o "'"
        ELSE response.value

\* f"No detailed information found for '{subquery}'"
no_detailed_information(sq) == "No detailed information found for '" \o sq \o "'"

\* [result['url'] for result in search_results[:self.max_results_to_scrape]]
urls_to_scrape(search_results) ==
    LET top == Take(search_results, max_results_to_scrape)
    IN  [i \in 1..Len(top) |-> top[i].url]

----------------------------------------------------------------------------
(* One pipeline run: AgentSearchService / WebSearchAgentService /          *)
(* DeepWebSearchService process_query, a step per collaborator call        *)

Backends == {"document", "web", "deep"}
Strategies == {"direct", "informed"}
RawQueries == {"q"}
Conversations == { << >>, << [role |-> "user", content |-> "hi"] >> }

NoResult == [kind |-> "none"]
NoOutput == [mode |-> "none"]
NoInitial == [response |-> "", contexts |-> << >>, analyzed |-> << >>]

\* what the provider may answer to a decomposition prompt
DecompResponses ==
    {"", "- a\n- b", "a\na", "Initial query: q\n- a"}
DecompOutcomes == {ProviderText(t) : t \in DecompResponses} \cup {ProviderError}

\* what the provider may answer to any other prompt about the text x
AnswerOutcomes(x) == {ProviderText("answer: " \o x), ProviderError}

DocSearchOutcomes ==
    {[kind |-> "hits", n |-> k] : k \in 0..MaxCtx}
    \cup {[kind |-> "raise", n |-> 0], [kind |-> "no_collection", n |-> 0]}
WebSearchOutcomes ==
    {[kind |-> "hits", n |-> k] : k \in 0..MaxCtx}
    \cup {[kind |-> "http_error", n |-> 0], [kind |-> "raise", n |-> 0]}
FetchOutcomes == {"ok", "nonhtml", "error"}

\* the orders in which n submitted fetches may complete
Orders(n) == {f \in [1..n -> 1..n] : \A i, j \in 1..n : f[i] = f[j] => i = j}

web_flag == backend # "document"

InitialTag(q) == "Initial query: " \o q

\* process_query: informed dispatches to the informed method, all else
\* direct; DeepWebSearchService without use_agent runs _process_standard
dispatch(s) ==
    IF backend = "deep" /\ ~ use_agent THEN "STANDARD_RETRIEVAL"
    ELSE IF s = "informed" THEN "INITIAL_RETRIEVAL" ELSE "DECOMPOSE"

Init ==
    /\ pc = "INIT"
    /\ backend \in Backends
    /\ use_agent \in (IF backend = "deep" THEN BOOLEAN ELSE {TRUE})
    /\ strategy \in (IF use_agent THEN Strategies ELSE {"direct"})
    /\ parallel_scraping \in (IF backend = "deep" THEN BOOLEAN ELSE {TRUE})
    /\ query \in RawQueries
    /\ initial = NoInitial
    /\ subqueries = << >>
    /\ idx = 1
    /\ analyzed_contents = << >>
    /\ intermediate_results = << >>
    /\ all_contexts = << >>
    /\ all_analyzed_contents = << >>
    /\ synth_input = << >>
    /\ result = NoResult
    /\ stages = << "INIT" >>
    /\ calls = << >>
    /\ DecomposerIdle
    /\ ExtIdle

Enter(stage) == pc' = stage /\ stages' = Append(stages, stage)

Abort == Enter("ABORTED")

\* process_query: fold the conversation into the query, pick the method
ProcessQuery(conversation_context) ==
    /\ pc = "INIT"
    /\ query' = format_conversation_context(query, conversation_context)
    /\ Enter(dispatch(strategy))
    /\ UNCHANGED <<backend, use_agent, strategy, parallel_scraping, initial,
                   subqueries, idx, analyzed_contents, intermediate_results,
                   all_contexts, all_analyzed_contents, synth_input, result, calls,
                   dvars, ext>>

\* the document / web retrieval of one query text
Retrieve(search_outcome, llm_outcome, q) ==
    IF backend = "document" THEN rag_process_query(search_outcome, llm_outcome, q)
    ELSE searxng_process_query(search_outcome, llm_outcome, q)

SearchOutcomes == IF backend = "document" THEN DocSearchOutcomes ELSE WebSearchOutcomes

\* the number of URLs a deep retrieval fetches for a search outcome
NumUrls(search_outcome, q) == Len(urls_to_scrape(searxng_search(search_outcome, q)))

\* what the provider does on each scraped page: it throws on the pages of
\* failing
PageOutcomes(scraped, failing) ==
    [i \in 1..Len(scraped) |->
        IF i \in failing THEN ProviderError
        ELSE ProviderText("answer: " \o scraped[i].url)]

\* the deep-web early return when the initial search finds nothing
EarlyResult ==
    [query |-> query, contexts |-> << >>, scraped_contents |-> << >>,
     subqueries |-> << >>,
     response |-> "No web search results found for '" \o query \o "'.",
     search_type |-> "deep_web_agent", source |-> "deep_search",
     strategy |-> strategy, model_info |-> ModelInfo]

\* the early return of _process_standard when the search finds nothing
StandardEarlyResult ==
    [query |-> query, contexts |-> << >>, scraped_contents |-> << >>,
     response |-> "No web search results found for '" \o query \o "'.",
     search_type |-> "deep_web", source |-> "deep_search",
     model_info |-> ModelInfo]

\* _process_standard up to its provider call for the response: search,
\* fetch, summarize
StandardRetrieval(search_outcome, fetch, order, failing) ==
    /\ pc = "STANDARD_RETRIEVAL"
    /\ calls' = Append(calls, "retrieve")
    /\ LET search_results == searxng_search(search_outcome, query)
           urls == urls_to_scrape(search_results)
           scraped_contents == scrape_urls(parallel_scraping, urls, fetch, order)
       IN  IF search_results = << >>
           THEN /\ result' = StandardEarlyResult
                /\ Enter("DONE")
                /\ UNCHANGED analyzed_contents
           ELSE /\ analyzed_contents' =
                       analyze_contents(scraped_contents,
                                        PageOutcomes(scraped_contents, failing), 1)
                /\ Enter("STANDARD_RESPONSE")
                /\ UNCHANGED result
    /\ UNCHANGED <<backend, use_agent, strategy, parallel_scraping, query, initial,
                   subqueries, idx, intermediate_results, all_contexts,
                   all_analyzed_contents, synth_input, dvars, ext>>

\* step 6 of _process_standard: the synthesis call sits in a try, the
\* fallback call for no summarized page does not
standard_response(analyzed, llm_outcome) ==
    LET r == generate_response(llm_outcome)
    IN  IF analyzed # << >> /\ r.raised
        THEN Ret("Error generating deep search response: " \o llm_outcome.text)
        ELSE r

\* the provider call of _process_standard, then the return
StandardResponse(llm_outcome) ==
    /\ pc = "STANDARD_RESPONSE"
    /\ calls' = Append(calls, "respond")
    /\ LET r == standard_response(analyzed_contents, llm_outcome)
       IN  IF r.raised
           THEN Abort /\ UNCHANGED result
           ELSE /\ result' = [query |-> query,
                              contexts |-> create_contexts(analyzed_contents),
                              scraped_contents |-> analyzed_contents,
                              response |-> r.value,
                              search_type |-> "deep_web",
                              source |-> "deep_search",
                              model_info |-> ModelInfo]
                /\ Enter("DONE")
    /\ UNCHANGED <<backend, use_agent, strategy, parallel_scraping, query, initial,
                   subqueries, idx, analyzed_contents, intermediate_results,
                   all_contexts, all_analyzed_contents, synth_input, dvars, ext>>

\* informed strategy, step 1: retrieval on the whole query
InitialRetrievalFlat(search_outcome, llm_outcome) ==
    /\ pc = "INITIAL_RETRIEVAL"
    /\ backend # "deep"
    /\ calls' = Append(calls, "initial_retrieval")
    /\ LET r == Retrieve(search_outcome, llm_outcome, query)
       IN  IF r.raised
           THEN Abort /\ UNCHANGED <<initial, result>>
           ELSE /\ initial' = [response |-> r.value.response,
                               contexts |-> r.value.contexts,
                               analyzed |-> << >>]
                /\ Enter("DECOMPOSE")
                /\ UNCHANGED result
    /\ UNCHANGED <<backend, use_agent, strategy, parallel_scraping, query,
                   subqueries, idx, analyzed_contents, intermediate_results,
                   all_contexts, all_analyzed_contents, synth_input, dvars, ext>>

\* informed strategy of the deep-web method, steps 1 and 2: search, fetch,
\* summarize, and the contexts for the decomposition
InitialRetrievalDeep(search_outcome, fetch, order, failing) ==
    /\ pc = "INITIAL_RETRIEVAL"
    /\ backend = "deep"
    /\ calls' = Append(calls, "initial_retrieval")
    /\ LET initial_search_results == searxng_search(search_outcome, query)
           initial_urls == urls_to_scrape(initial_search_results)
       IN  IF initial_search_results = << >>
           THEN /\ result' = EarlyResult
                /\ Enter("DONE")
                /\ UNCHANGED initial
           ELSE LET initial_scraped ==
                           scrape_urls(parallel_scraping, initial_urls, fetch, order)
                       initial_analyzed ==
                           analyze_contents(initial_scraped,
                               PageOutcomes(initial_scraped, failing), 1)
                IN  /\ initial' = [response |-> "No initial content found",
                                   contexts |-> create_contexts(initial_analyzed),
                                   analyzed |-> initial_analyzed]
                    /\ Enter("DECOMPOSE")
                    /\ UNCHANGED result
    /\ UNCHANGED <<backend, use_agent, strategy, parallel_scraping, query,
                   subqueries, idx, analyzed_contents, intermediate_results,
                   all_contexts, all_analyzed_contents, synth_input, dvars, ext>>

\* decomposition; the informed document / web methods then seed the
\* accumulators with the initial result
Decompose(llm_outcome) ==
    /\ pc = "DECOMPOSE"
    /\ calls' = Append(calls, "decompose")
    /\ LET with_context ==
               strategy = "informed" /\ (backend # "deep" \/ initial.analyzed # << >>)
           seeded == strategy = "informed" /\ backend # "deep"
           r == IF with_context
                THEN decompose_query_informed(query, llm_outcome, web_flag)
                ELSE decompose_query(query, llm_outcome, web_flag)
       IN  IF r.raised
           THEN /\ Abort
                /\ UNCHANGED <<subqueries, intermediate_results, all_contexts>>
           ELSE /\ subqueries' = r.value
                /\ intermediate_results' =
                       IF seeded
                       THEN << [subquery |-> InitialTag(query),
                                answer |-> initial.response,
                                contexts |-> initial.contexts] >>
                       ELSE << >>
                /\ all_contexts' = IF seeded THEN initial.contexts ELSE << >>
                /\ Enter(IF r.value = << >> THEN "AGGREGATE" ELSE "FAN_OUT")
    /\ UNCHANGED <<backend, use_agent, strategy, parallel_scraping, query, initial,
                   idx, analyzed_contents, all_analyzed_contents, synth_input,
                   result, dvars, ext>>

\* for subquery in subqueries: the loop has a subquery to process
InLoop == pc = "FAN_OUT" /\ idx <= Len(subqueries)

\* after one pass of the loop over subqueries
Advance ==
    /\ idx' = idx + 1
    /\ IF idx >= Len(subqueries) THEN Enter("AGGREGATE") ELSE UNCHANGED <<pc, stages>>

\* one pass of the loop, document and web backends
FanOutFlat(search_outcome, llm_outcome) ==
    /\ InLoop
    /\ backend # "deep"
    /\ calls' = Append(calls, "retrieve")
    /\ LET subquery == subqueries[idx]
           r == Retrieve(search_outcome, llm_outcome, subquery)
       IN  IF r.raised
           THEN Abort /\ UNCHANGED <<idx, intermediate_results, all_contexts>>
           ELSE /\ intermediate_results' =
                       Append(intermediate_results,
                              [subquery |-> subquery,
                               answer |-> r.value.response,
                               contexts |-> r.value.contexts])
                /\ all_contexts' = all_contexts \o r.value.contexts
                /\ Advance
    /\ UNCHANGED <<backend, use_agent, strategy, parallel_scraping, query, initial,
                   subqueries, analyzed_contents, all_analyzed_contents,
                   synth_input, result, dvars, ext>>

\* the entry a pass of the deep-web loop appends to subquery_results
deep_entry(subquery, subquery_response, analyzed) ==
    [subquery |-> subquery,
     answer |-> subquery_response,
     contexts |-> create_contexts(analyzed)]

\* one pass of the deep-web loop up to the provider call of
\* _analyze_subquery: search, fetch, summarize, extend the collections; a
\* pass with no summarized page makes no such call and ends here
FanOutDeep(search_outcome, fetch, order, failing) ==
    /\ InLoop
    /\ backend = "deep"
    /\ analyzed_contents = << >>
    /\ calls' = Append(calls, "retrieve")
    /\ LET subquery == subqueries[idx]
           search_results == searxng_search(search_outcome, subquery)
           urls == urls_to_scrape(search_results)
           scraped_contents == scrape_urls(parallel_scraping, urls, fetch, order)
           analyzed == analyze_contents(scraped_contents,
                                        PageOutcomes(scraped_contents, failing), 1)
       IN  IF search_results = << >>
           THEN /\ Advance
                /\ UNCHANGED <<analyzed_contents, intermediate_results,
                               all_contexts, all_analyzed_contents>>
           ELSE /\ all_analyzed_contents' = all_analyzed_contents \o analyzed
                /\ all_contexts' = all_contexts \o create_contexts(analyzed)
                /\ analyzed_contents' = analyzed
                /\ IF analyzed = << >>
                   THEN /\ intermediate_results' =
                               Append(intermediate_results,
                                      deep_entry(subquery,
                                                 no_detailed_information(subquery),
                                                 analyzed))
                        /\ Advance
                   ELSE UNCHANGED <<intermediate_results, idx, pc, stages>>
    /\ UNCHANGED <<backend, use_agent, strategy, parallel_scraping, query, initial,
                   subqueries, synth_input, result, dvars, ext>>

\* the rest of the pass: the provider call of _analyze_subquery and the
\* entry of the subquery
FanOutDeepAnswer(llm_outcome) ==
    /\ InLoop
    /\ backend = "deep"
    /\ analyzed_contents # << >>
    /\ intermediate_results' =
           Append(intermediate_results,
                  deep_entry(subqueries[idx],
                             analyze_subquery(subqueries[idx], llm_outcome),
                             analyzed_contents))
    /\ analyzed_contents' = << >>
    /\ Advance
    /\ UNCHANGED <<backend, use_agent, strategy, parallel_scraping, query, initial,
                   subqueries, all_contexts, all_analyzed_contents, synth_input,
                   result, calls, dvars, ext>>

\* after the loop: the deep-web method puts the initial result first
Aggregate ==
    /\ pc = "AGGREGATE"
    /\ intermediate_results' =
           IF backend = "deep" /\ strategy = "informed" /\ initial.analyzed # << >>
           THEN << [subquery |-> InitialTag(query),
                    answer |-> "Initial context gathering for informed decomposition",
                    contexts |-> initial.contexts] >> \o intermediate_results
           ELSE intermediate_results
    /\ Enter("SYNTHESIZE")
    /\ UNCHANGED <<backend, use_agent, strategy, parallel_scraping, query, initial,
                   subqueries, idx, analyzed_contents, all_contexts,
                   all_analyzed_contents, synth_input, result, calls, dvars, ext>>

synthesize_answer_propagating(llm_outcome) ==
    generate_response_propagating(llm_outcome)

\* BaseAgentService._synthesize_answer
synthesize_answer(llm_outcome) == generate_response(llm_outcome)

NotInitialExact(sq) == sq # InitialTag(query)
NotInitialPrefix(sq) == ~ startswith(sq, "Initial query")

\* the 'subqueries' entry of the returned dictionary
reported_subqueries(irs) ==
    LET all == [i \in 1..Len(irs) |-> irs[i].subquery]
    IN  IF backend = "deep" THEN SelectSeq(all, NotInitialPrefix)
        ELSE IF strategy = "informed" THEN SelectSeq(all, NotInitialExact)
        ELSE all

\* the returned dictionary
FinalResult(response) ==
    LET base == [query |-> query,
                 subqueries |-> reported_subqueries(intermediate_results),
                 intermediate_results |-> intermediate_results,
                 contexts |-> all_contexts,
                 response |-> response,
                 strategy |-> strategy,
                 model_info |-> ModelInfo]
    IN  CASE backend = "document" -> base
          [] backend = "web" -> base @@ [search_type |-> "web"]
          [] OTHER -> base @@ [scraped_contents |-> all_analyzed_contents,
                               search_type |-> "deep_web_agent",
                               source |-> "deep_search"]

\* synthesis, then the return
Synthesize(llm_outcome) ==
    /\ pc = "SYNTHESIZE"
    /\ calls' = Append(calls, "synthesize")
    /\ synth_input' = [i \in 1..Len(intermediate_results) |->
                          [subquery |-> intermediate_results[i].subquery,
                           answer |-> intermediate_results[i].answer]]
    /\ LET r == synthesize_answer(llm_outcome)
       IN  IF r.raised
           THEN Abort /\ UNCHANGED result
           ELSE result' = FinalResult(r.value) /\ Enter("DONE")
    /\ UNCHANGED <<backend, use_agent, strategy, parallel_scraping, query, initial,
                   subqueries, idx, analyzed_contents, intermediate_results,
                   all_contexts, all_analyzed_contents, dvars, ext>>

Next ==
    \/ \E c \in Conversations : ProcessQuery(c)
    \/ /\ pc = "STANDARD_RETRIEVAL"
       /\ \E so \in WebSearchOutcomes :
             \E fetch \in [1..NumUrls(so, query) -> FetchOutcomes] :
                \E order \in Orders(NumUrls(so, query)) :
                   \E failing \in SUBSET (1..NumUrls(so, query)) :
                      StandardRetrieval(so, fetch, order, failing)
    \/ \E lo \in AnswerOutcomes(query) : StandardResponse(lo)
    \/ /\ pc = "INITIAL_RETRIEVAL" /\ backend # "deep"
       /\ \E so \in SearchOutcomes : \E lo \in AnswerOutcomes(query) :
             InitialRetrievalFlat(so, lo)
    \/ /\ pc = "INITIAL_RETRIEVAL" /\ backend = "deep"
       /\ \E so \in WebSearchOutcomes :
             \E fetch \in [1..NumUrls(so, query) -> FetchOutcomes] :
                \E order \in Orders(NumUrls(so, query)) :
                   \E failing \in SUBSET (1..NumUrls(so, query)) :
                      InitialRetrievalDeep(so, fetch, order, failing)
    \/ \E lo \in DecompOutcomes : Decompose(lo)
    \/ /\ InLoop /\ backend # "deep"
       /\ \E so \in SearchOutcomes : \E lo \in AnswerOutcomes(subqueries[idx]) :
             FanOutFlat(so, lo)
    \/ /\ InLoop /\ backend = "deep" /\ analyzed_contents = << >>
       /\ \E so \in WebSearchOutcomes :
             \E fetch \in [1..NumUrls(so, subqueries[idx]) -> FetchOutcomes] :
                \E order \in Orders(NumUrls(so, subqueries[idx])) :
                   \E failing \in SUBSET (1..NumUrls(so, subqueries[idx])) :
                      FanOutDeep(so, fetch, order, failing)
    \/ /\ InLoop /\ backend = "deep" /\ analyzed_contents # << >>
       /\ \E lo \in AnswerOutcomes(subqueries[idx]) : FanOutDeepAnswer(lo)
    \/ Aggregate
    \/ \E lo \in AnswerOutcomes(query) : Synthesize(lo)

Spec == Init /\ [][Next]_vars

----------------------------------------------------------------------------
(* The decomposer on its own: a provider response is composed line by     *)
(* line, then one of the two decomposition methods is called on it.       *)

SampleLines == {"", " ", "-", "- a", "b"}
SampleQueries == {"q", "a"}

PipelineIdle ==
    /\ pc = "INIT" /\ backend = "document" /\ use_agent = TRUE
    /\ strategy = "direct" /\ analyzed_contents = << >>
    /\ parallel_scraping = TRUE /\ query = "q" /\ initial = [kind |-> "none"]
    /\ subqueries = << >> /\ idx = 1 /\ intermediate_results = << >>
    /\ all_contexts = << >> /\ all_analyzed_contents = << >>
    /\ synth_input = << >> /\ result = [kind |-> "none"]
    /\ stages = << >> /\ calls = << >>

DInit ==
    /\ d_pc = "compose"
    /\ d_query \in SampleQueries
    /\ d_lines = << >>
    /\ d_out = NoOutput
    /\ PipelineIdle
    /\ ExtIdle

DAddLine(l) ==
    /\ d_pc = "compose"
    /\ Len(d_lines) < MaxLines
    /\ d_lines' = Append(d_lines, l)
    /\ UNCHANGED <<d_pc, d_query, d_out, pvars, ext>>

DOutcomes == {ProviderText(JoinLines(d_lines)), ProviderError}

DDecompose(is_web_search, outcome) ==
    /\ d_pc = "compose"
    /\ LET r == decompose_query(d_query, outcome, is_web_search)
       IN  /\ d_out' = [mode |-> "blind", web |-> is_web_search,
                        outcome |-> outcome, raised |-> r.raised,
                        subqueries |-> IF r.raised THEN << >> ELSE r.value]
           /\ d_pc' = "done"
    /\ UNCHANGED <<d_query, d_lines, pvars, ext>>

DDecomposeInformed(is_web_search, outcome) ==
    /\ d_pc = "compose"
    /\ LET r == decompose_query_informed(d_query, outcome, is_web_search)
       IN  /\ d_out' = [mode |-> "informed", web |-> is_web_search,
                        outcome |-> outcome, raised |-> r.raised,
                        subqueries |-> IF r.raised THEN << >> ELSE r.value]
           /\ d_pc' = "done"
    /\ UNCHANGED <<d_query, d_lines, pvars, ext>>

DNext ==
    \/ \E l \in SampleLines : DAddLine(l)
    \/ \E w \in BOOLEAN : \E o \in DOutcomes : DDecompose(w, o)
    \/ \E w \in BOOLEAN : \E o \in DOutcomes : DDecomposeInformed(w, o)

SpecDecompose == DInit /\ [][DNext]_vars

----------------------------------------------------------------------------
(* One deep-web retrieval: the body of the loop of _process_with_agent for *)
(* one subquery, with the fetches of _scrape_urls as separate steps: a     *)
(* fetch is queued when submitted, running on a worker of the pool, then   *)
(* finished, then consumed by the loop over as_completed.                  *)

\* most results the search of one subquery returns
MaxHits == 3
\* DEEP_SEARCH_MAX_WORKERS when unset; the deployments modelled set 1 to this
default_max_workers == 3

RSubquery == "a"

RSearchOutcomes ==
    {[kind |-> "hits", n |-> k] : k \in 0..MaxHits}
    \cup {[kind |-> "http_error", n |-> 0], [kind |-> "raise", n |-> 0]}

Min(a, b) == IF a <= b THEN a ELSE b

\* the fetches that may run at once: every url submitted at once to the pool
unbounded_pool == Len(r_urls)

\* the fetches that may run at once: the workers of
\* ThreadPoolExecutor(max_workers=min(self.max_workers, len(urls))) in
\* parallel mode, one in the sequential loop
pool_size ==
    IF r_parallel /\ Len(r_urls) > 1 THEN Min(r_max_workers, Len(r_urls)) ELSE 1

InFlight == {i \in 1..Len(r_fetch) : r_fetch[i].state = "running"}
Queued == {i \in 1..Len(r_fetch) : r_fetch[i].state = "queued"}
Fetched == {i \in 1..Len(r_fetch) : r_fetch[i].state # "queued"}
\* some future has been handed to the loop
any_consumed(fetch) == \E i \in 1..Len(fetch) : fetch[i].state = "consumed"

\* the loop over as_completed has been handed every future
AllConsumed(fetch) == \A i \in 1..Len(fetch) : fetch[i].state = "consumed"

\* where the pass is after a fetch has been consumed: still fetching, in
\* the loop of _analyze_contents, or past it when there is no page
after_fetch(fetch, scraped) ==
    IF ~ AllConsumed(fetch) THEN "scrape"
    ELSE IF scraped = << >> THEN "answer" ELSE "analyze"

\* if content and content.get('success', False): scraped_contents.append(content)
append_scraped(scraped, content) ==
    IF Succeeded(content) THEN Append(scraped, content) ELSE scraped

RInit ==
    /\ r_pc = "search"
    /\ r_parallel \in BOOLEAN
    /\ r_max_workers \in 1..default_max_workers
    /\ r_results = << >> /\ r_urls = << >> /\ r_fetch = << >>
    /\ r_scraped = << >> /\ r_llm = << >> /\ r_analyzed = << >>
    /\ r_entry = << >> /\ r_calls = << >>
    /\ PipelineIdle /\ DecomposerIdle /\ ConcurrentIdle /\ FormatIdle /\ ChunkIdle

\* search_results = self.searxng_service.search(subquery, ...); no result: continue
RSearch(outcome) ==
    /\ r_pc = "search"
    /\ LET search_results == searxng_search(outcome, RSubquery)
           urls == urls_to_scrape(search_results)
       IN  /\ r_results' = search_results
           /\ IF search_results = << >>
              THEN r_pc' = "done" /\ UNCHANGED <<r_urls, r_fetch>>
              ELSE /\ r_pc' = "scrape"
                   /\ r_urls' = urls
                   /\ r_fetch' = [i \in 1..Len(urls) |->
                                     [state |-> "queued", content |-> None]]
    /\ UNCHANGED <<r_parallel, r_max_workers, r_scraped, r_llm, r_analyzed,
                   r_entry, r_calls, pvars, dvars, cvars, fvars, kvars>>

\* a free worker takes the oldest queued fetch
RStart(i) ==
    /\ r_pc = "scrape"
    /\ i \in Queued
    /\ \A j \in Queued : i <= j
    /\ Cardinality(InFlight) < pool_size
    /\ r_fetch' = [r_fetch EXCEPT ![i].state = "running"]
    /\ UNCHANGED <<r_pc, r_parallel, r_max_workers, r_results, r_urls, r_scraped,
                   r_llm, r_analyzed, r_entry, r_calls, pvars, dvars, cvars, fvars, kvars>>

\* scrape_url returns; the sequential loop appends its content at once
RFinish(i, outcome) ==
    /\ r_pc = "scrape"
    /\ i \in InFlight
    /\ LET content == scrape_url(outcome, r_urls[i])
       IN  IF r_parallel /\ Len(r_urls) > 1
           THEN /\ r_fetch' = [r_fetch EXCEPT ![i] =
                                  [state |-> "finished", content |-> content]]
                /\ UNCHANGED <<r_pc, r_scraped>>
           ELSE /\ r_fetch' = [r_fetch EXCEPT ![i] =
                                  [state |-> "consumed", content |-> content]]
                /\ r_scraped' = append_scraped(r_scraped, content)
                /\ r_pc' = after_fetch(r_fetch', r_scraped')
    /\ UNCHANGED <<r_parallel, r_max_workers, r_results, r_urls, r_llm, r_analyzed,
                   r_entry, r_calls, pvars, dvars, cvars, fvars, kvars>>

\* for future in as_completed(future_to_url): a finished fetch is handed to
\* the loop, which appends its content
RConsume(i) ==
    /\ r_pc = "scrape"
    /\ i \in 1..Len(r_fetch)
    /\ r_fetch[i].state = "finished"
    /\ r_fetch' = [r_fetch EXCEPT ![i].state = "consumed"]
    /\ r_scraped' = append_scraped(r_scraped, r_fetch[i].content)
    /\ r_pc' = after_fetch(r_fetch', r_scraped')
    /\ UNCHANGED <<r_parallel, r_max_workers, r_results, r_urls, r_llm, r_analyzed,
                   r_entry, r_calls, pvars, dvars, cvars, fvars, kvars>>

\* one pass of the loop of _analyze_contents: the provider is asked about
\* the next scraped page
RAnalyze(llm_outcome) ==
    /\ r_pc = "analyze"
    /\ Len(r_llm) < Len(r_scraped)
    /\ r_llm' = Append(r_llm, llm_outcome)
    /\ r_analyzed' = r_analyzed
                       \o analyze_contents(<< r_scraped[Len(r_llm) + 1] >>,
                                           << llm_outcome >>, 1)
    /\ r_calls' = Append(r_calls, "analyze")
    /\ r_pc' = IF Len(r_llm') = Len(r_scraped) THEN "answer" ELSE "analyze"
    /\ UNCHANGED <<r_parallel, r_max_workers, r_results, r_urls, r_fetch, r_scraped,
                   r_entry, pvars, dvars, cvars, fvars, kvars>>

\* the answer of the subquery and the entry appended to subquery_results
RAnswer(llm_outcome) ==
    /\ r_pc = "answer"
    /\ r_calls' = IF r_analyzed # << >> THEN Append(r_calls, "answer") ELSE r_calls
    /\ r_entry' = << [subquery |-> RSubquery,
                      answer |-> IF r_analyzed # << >>
                                 THEN analyze_subquery(RSubquery, llm_outcome)
                                 ELSE no_detailed_information(RSubquery),
                      contexts |-> create_contexts(r_analyzed)] >>
    /\ r_pc' = "done"
    /\ UNCHANGED <<r_parallel, r_max_workers, r_results, r_urls, r_fetch, r_scraped,
                   r_llm, r_analyzed, pvars, dvars, cvars, fvars, kvars>>

RNext ==
    \/ \E o \in RSearchOutcomes : RSearch(o)
    \/ \E i \in 1..Len(r_fetch) : RStart(i)
    \/ \E i \in 1..Len(r_fetch) : \E o \in FetchOutcomes : RFinish(i, o)
    \/ \E i \in 1..Len(r_fetch) : RConsume(i)
    \/ /\ r_pc = "analyze"
       /\ \E lo \in AnswerOutcomes(r_scraped[Len(r_llm) + 1].url) : RAnalyze(lo)
    \/ \E lo \in AnswerOutcomes(RSubquery) : RAnswer(lo)

SpecRetrieve == RInit /\ [][RNext]_vars

----------------------------------------------------------------------------
(* Two runs of AgentSearchService.process_query_direct in one process,     *)
(* their steps interleaved. What the collaborators answer to a run is      *)
(* fixed by the run's inputs, so that the same run can be replayed alone.  *)

Runs == {1, 2}

\* the inputs of a run: its query and what the provider and the index answer
CInputs(r) ==
    [query : {IF r = 1 THEN "q" ELSE "p"},
     decomposition : {"", "- a\n- b"},
     hits : 0..MaxCtx,
     synthesis_fails : BOOLEAN]

EmptyAccumulators == [intermediate_results |-> << >>, all_contexts |-> << >>]

\* the lists a run accumulates in: one list shared by every run
accumulators_shared(r) == 1

\* the lists a run accumulates in: intermediate_results = [] and
\* all_contexts = [] are created by the call itself
accumulators(r) == r

\* self.rag_service.process_query(collection_id, subquery, ...) of a run
c_retrieve(in, subquery) ==
    rag_process_query([kind |-> "hits", n |-> in.hits],
                      ProviderText("answer: " \o subquery), subquery).value

c_synthesis_outcome(in) ==
    IF in.synthesis_fails THEN ProviderError
    ELSE ProviderText("answer: " \o in.query)

\* the dictionary process_query_direct returns
c_result(in, acc, response) ==
    [query |-> in.query,
     subqueries |-> [i \in 1..Len(acc.intermediate_results) |->
                        acc.intermediate_results[i].subquery],
     intermediate_results |-> acc.intermediate_results,
     contexts |-> acc.all_contexts,
     response |-> response,
     strategy |-> "direct",
     model_info |-> ModelInfo]

\* one pass of the loop on the accumulators acc
c_accumulate(in, acc, subquery) ==
    LET r == c_retrieve(in, subquery)
    IN  [intermediate_results |->
             Append(acc.intermediate_results,
                    [subquery |-> subquery,
                     answer |-> r.response,
                     contexts |-> r.contexts]),
         all_contexts |-> acc.all_contexts \o r.contexts]

CInit ==
    /\ c_run \in [Runs -> UNION {[pc : {"DECOMPOSE"}, inputs : CInputs(r),
                                   subqueries : {<< >>}, idx : {1},
                                   result : {NoResult}] : r \in Runs}]
    /\ \A r \in Runs : c_run[r].inputs \in CInputs(r)
    /\ c_acc = [a \in Runs |-> EmptyAccumulators]
    /\ PipelineIdle /\ DecomposerIdle /\ RetrievalIdle /\ FormatIdle
    /\ ChunkIdle

\* subqueries = self._decompose_query(query); the accumulators are created
CDecompose(r) ==
    /\ c_run[r].pc = "DECOMPOSE"
    /\ c_run' = [c_run EXCEPT
                    ![r].subqueries =
                        decompose_query(c_run[r].inputs.query,
                            ProviderText(c_run[r].inputs.decomposition),
                            FALSE).value,
                    ![r].pc = "FAN_OUT"]
    /\ c_acc' = [c_acc EXCEPT ![accumulators(r)] = EmptyAccumulators]
    /\ UNCHANGED <<pvars, dvars, rvars, fvars, kvars>>

\* one pass of the loop over the subqueries of run r
CFanOut(r) ==
    /\ c_run[r].pc = "FAN_OUT"
    /\ c_acc' = [c_acc EXCEPT ![accumulators(r)] =
                    c_accumulate(c_run[r].inputs, c_acc[accumulators(r)],
                                 c_run[r].subqueries[c_run[r].idx])]
    /\ c_run' = [c_run EXCEPT
                    ![r].idx = c_run[r].idx + 1,
                    ![r].pc = IF c_run[r].idx >= Len(c_run[r].subqueries)
                              THEN "SYNTHESIZE" ELSE "FAN_OUT"]
    /\ UNCHANGED <<pvars, dvars, rvars, fvars, kvars>>

\* synthesis and return of run r
CSynthesize(r) ==
    /\ c_run[r].pc = "SYNTHESIZE"
    /\ c_run' = [c_run EXCEPT
                    ![r].result =
                        c_result(c_run[r].inputs, c_acc[accumulators(r)],
                            synthesize_answer(
                                c_synthesis_outcome(c_run[r].inputs)).value),
                    ![r].pc = "DONE"]
    /\ UNCHANGED <<c_acc, pvars, dvars, rvars, fvars, kvars>>

CNext ==
    \/ \E r \in Runs : CDecompose(r)
    \/ \E r \in Runs : CFanOut(r)
    \/ \E r \in Runs : CSynthesize(r)

SpecConcurrent == CInit /\ [][CNext]_vars

----------------------------------------------------------------------------
(* PromptTemplateService.format_context *)

\* most contexts in the list handed to format_context
MaxEntries == 3
\* largest max_length handed to format_context
MaxBudget == 170

DecimalDigit(d) ==
    CASE d = 0 -> "0" [] d = 1 -> "1" [] d = 2 -> "2" [] d = 3 -> "3"
      [] d = 4 -> "4" [] d = 5 -> "5" [] d = 6 -> "6" [] d = 7 -> "7"
      [] d = 8 -> "8" [] OTHER -> "9"

\* f"{score:.2f}" of a score given in hundredths, 0 <= score < 1000
format_score(score) ==
    DecimalDigit(score \div 100) \o "." \o DecimalDigit((score % 100) \div 10)
        \o DecimalDigit(score % 10)

context_header == "Context information:\n\n"
truncation_note == "...(additional context truncated due to length)..."

\* context_block of the i-th context of the sorted list
context_block(i, ctx) ==
    LET source_info == IF ctx.url # "" THEN "URL: " \o ctx.url \o "\n" ELSE ""
    IN  "[Source " \o DecimalDigit(i) \o "] From '" \o ctx.document_title
          \o "' (relevance: " \o format_score(ctx.score) \o "):\n"
          \o source_info \o ctx.content \o "\n\n"

\* insertion for a stable sort by descending score: x goes behind every
\* element whose score is at least its own
RECURSIVE insert_by_score(_, _)
insert_by_score(x, sorted) ==
    IF sorted = << >> THEN << x >>
    ELSE IF Head(sorted).score >= x.score
         THEN << Head(sorted) >> \o insert_by_score(x, Tail(sorted))
         ELSE << x >> \o sorted

\* sorted(contexts, key=lambda x: x.get('score', 0), reverse=True)
RECURSIVE sorted_by_score(_)
sorted_by_score(contexts) ==
    IF contexts = << >> THEN << >>
    ELSE insert_by_score(contexts[Len(contexts)],
                         sorted_by_score(SubSeq(contexts, 1, Len(contexts) - 1)))

exceeds_never(current_length, block, max_length) == FALSE

\* if current_length + len(context_block) > max_length
exceeds(current_length, block, max_length) ==
    current_length + Len(block) > max_length

\* the loop of format_context from the i-th sorted context on
RECURSIVE format_from(_, _, _, _, _)
format_from(sorted_contexts, i, formatted, current_length, max_length) ==
    IF i > Len(sorted_contexts) THEN formatted
    ELSE LET block == context_block(i, sorted_contexts[i])
         IN  IF exceeds(current_length, block, max_length)
             THEN IF i > 1 THEN formatted \o truncation_note ELSE formatted
             ELSE format_from(sorted_contexts, i + 1, formatted \o block,
                              current_length + Len(block), max_length)

format_context(contexts, max_length) ==
    format_from(sorted_by_score(contexts), 1, context_header,
                Len(context_header), max_length)

SampleContexts ==
    {[document_title |-> "A", score |-> 98, content |-> "x", url |-> ""],
     [document_title |-> "B", score |-> 50, content |-> "yy", url |-> "u"],
     [document_title |-> "C", score |-> 98, content |-> "", url |-> ""]}

ContextLists == UNION {[1..n -> SampleContexts] : n \in 0..MaxEntries}

FInit ==
    /\ f_pc = "call"
    /\ f_contexts \in ContextLists
    /\ f_max_length \in 0..MaxBudget
    /\ f_out = ""
    /\ PipelineIdle /\ DecomposerIdle /\ RetrievalIdle /\ ConcurrentIdle
    /\ ChunkIdle

FFormat ==
    /\ f_pc = "call"
    /\ f_out' = format_context(f_contexts, f_max_length)
    /\ f_pc' = "done"
    /\ UNCHANGED <<f_contexts, f_max_length, pvars, dvars, rvars, cvars, kvars>>

FNext == FFormat

SpecFormat == FInit /\ [][FNext]_vars

----------------------------------------------------------------------------
(* DocumentService.chunk_text *)

\* longest text handed to chunk_text
MaxText == 5
\* largest chunk_size handed to chunk_text
MaxSize == 3
\* largest overlap handed to chunk_text
MaxOverlap == 3

Max(a, b) == IF a >= b THEN a ELSE b

\* s[a:b] for 0 <= a and b <= len(s)
Slice(s, a, b) == IF a >= b THEN "" ELSE SubSeq(s, a + 1, b)

\* s.lstrip()
lstrip(s) == Slice(s, SkipSpace(s, 1) - 1, Len(s))

\* s[:j].rfind(' '), -1 when s[:j] has no space
RECURSIVE rfind_from(_, _)
rfind_from(s, j) ==
    IF j < 1 THEN -1
    ELSE IF CharAt(s, j) = " " THEN j - 1 ELSE rfind_from(s, j - 1)

\* s.rfind(' ')
rfind_space(s) == rfind_from(s, Len(s))

\* re.sub(r'\s+', ' ', s) from the i-th character on
RECURSIVE sub_whitespace_from(_, _)
sub_whitespace_from(s, i) ==
    IF i > Len(s) THEN ""
    ELSE IF CharAt(s, i) \in Whitespace
         THEN " " \o sub_whitespace_from(s, SkipSpace(s, i))
         ELSE CharAt(s, i) \o sub_whitespace_from(s, i + 1)

\* re.sub(r'\s+', ' ', text).strip()
normalize_whitespace(s) == strip(sub_whitespace_from(s, 1))

\* [x for x in pieces if x.strip()]
RECURSIVE keep_non_blank(_)
keep_non_blank(pieces) ==
    IF pieces = << >> THEN << >>
    ELSE IF strip(Head(pieces)) # ""
         THEN << Head(pieces) >> \o keep_non_blank(Tail(pieces))
         ELSE keep_non_blank(Tail(pieces))

SentenceEnd == {".", "!", "?"}

\* re.split(r'(?<=[.!?])\s+|(?<=[.!?])$', s): a piece ends at a run of
\* whitespace that follows a sentence end, and at the end of the text after
\* a sentence end (which leaves an empty last piece)
RECURSIVE split_sentences_from(_, _, _)
split_sentences_from(s, start, i) ==
    IF i > Len(s)
    THEN IF Len(s) >= 1 /\ CharAt(s, Len(s)) \in SentenceEnd
         THEN << Slice(s, start - 1, Len(s)), "" >>
         ELSE << Slice(s, start - 1, Len(s)) >>
    ELSE IF i > 1 /\ CharAt(s, i - 1) \in SentenceEnd /\ CharAt(s, i) \in Whitespace
         THEN << Slice(s, start - 1, i - 1) >>
                \o split_sentences_from(s, SkipSpace(s, i), SkipSpace(s, i))
         ELSE split_sentences_from(s, start, i + 1)

split_sentences(s) == keep_non_blank(split_sentences_from(s, 1, 1))

\* overlap_text: the last overlap characters of current_chunk, moved back to
\* the space before them when they start inside a word
overlap_text_of(current_chunk, overlap) ==
    LET n == Len(current_chunk)
        overlap_chars == Min(overlap, n)
        tail == lstrip(Slice(current_chunk, n - overlap_chars, n))
    IN  IF overlap_chars > 0 /\ CharAt(current_chunk, n - overlap_chars + 1) # " "
           /\ n > overlap_chars
        THEN LET space_pos == rfind_space(Slice(current_chunk, 0, n - overlap_chars))
             IN  IF space_pos >= 0 THEN Slice(current_chunk, space_pos + 1, n)
                 ELSE tail
        ELSE tail

\* the loop of _chunk_by_sentence from the k-th sentence on, and the last
\* chunk after it; seeds is a history of the loop: for each chunk closed with
\* an overlap, the current_chunk that was closed and the overlap_text that
\* was carried into the next one
RECURSIVE sentence_loop(_, _, _, _, _, _, _)
sentence_loop(sentences, k, current_chunk, chunks, seeds, chunk_size, overlap) ==
    IF k > Len(sentences)
    THEN [chunks |-> IF strip(current_chunk) # ""
                     THEN Append(chunks, strip(current_chunk)) ELSE chunks,
          seeds |-> seeds]
    ELSE LET sentence == sentences[k]
             closed == IF current_chunk # "" THEN Append(chunks, strip(current_chunk))
                       ELSE chunks
             overlap_text == overlap_text_of(current_chunk, overlap)
         IN  IF Len(current_chunk) + Len(sentence) <= chunk_size
             THEN sentence_loop(sentences, k + 1, current_chunk \o sentence \o " ",
                                chunks, seeds, chunk_size, overlap)
             ELSE IF overlap > 0 /\ current_chunk # ""
                  THEN sentence_loop(sentences, k + 1,
                           overlap_text \o " " \o sentence \o " ", closed,
                           Append(seeds, [closed |-> current_chunk,
                                          overlap_text |-> overlap_text]),
                           chunk_size, overlap)
                  ELSE sentence_loop(sentences, k + 1, sentence \o " ", closed,
                                     seeds, chunk_size, overlap)

chunk_by_sentence(text, chunk_size, overlap) ==
    sentence_loop(split_sentences(text), 1, "", << >>, << >>, chunk_size,
                  overlap).chunks

\* position of the last newline of s[lo..hi], 0 when there is none
RECURSIVE last_newline(_, _, _)
last_newline(s, lo, hi) ==
    IF hi < lo THEN 0
    ELSE IF CharAt(s, hi) = "\n" THEN hi ELSE last_newline(s, lo, hi - 1)

\* re.split(r'\n\s*\n', s): a separator is a newline, then the longest run
\* of whitespace that ends in a newline
RECURSIVE split_paragraphs_from(_, _, _)
split_paragraphs_from(s, start, i) ==
    IF i > Len(s) THEN << Slice(s, start - 1, Len(s)) >>
    ELSE LET q == last_newline(s, i + 1, SkipSpace(s, i + 1) - 1)
         IN  IF CharAt(s, i) = "\n" /\ q > 0
             THEN << Slice(s, start - 1, i - 1) >>
                    \o split_paragraphs_from(s, q + 1, q + 1)
             ELSE split_paragraphs_from(s, start, i + 1)

RECURSIVE normalize_each(_)
normalize_each(pieces) ==
    IF pieces = << >> THEN << >>
    ELSE << normalize_whitespace(Head(pieces)) >> \o normalize_each(Tail(pieces))

RECURSIVE keep_non_empty(_)
keep_non_empty(pieces) ==
    IF pieces = << >> THEN << >>
    ELSE IF Head(pieces) # ""
         THEN << Head(pieces) >> \o keep_non_empty(Tail(pieces))
         ELSE keep_non_empty(Tail(pieces))

\* the paragraphs chunk_text hands to _chunk_by_paragraph
split_paragraphs(text) ==
    keep_non_empty(normalize_each(split_paragraphs_from(text, 1, 1)))

\* the inner loop of _chunk_by_paragraph: the last paragraphs of the closed
\* chunk that fit in overlap characters, from the j-th paragraph backwards
RECURSIVE overlap_paragraphs_from(_, _, _, _, _)
overlap_paragraphs_from(current_paragraphs, j, overlap_text, overlap_paragraphs, overlap) ==
    IF j < 1
    THEN [overlap_text |-> overlap_text, overlap_paragraphs |-> overlap_paragraphs]
    ELSE LET p == current_paragraphs[j]
         IN  IF Len(p) + 2 + Len(overlap_text) <= overlap
             THEN overlap_paragraphs_from(current_paragraphs, j - 1,
                      IF overlap_text # "" THEN p \o "\n\n" \o overlap_text ELSE p,
                      << p >> \o overlap_paragraphs, overlap)
             ELSE [overlap_text |-> overlap_text,
                   overlap_paragraphs |-> overlap_paragraphs]

\* the loop of _chunk_by_paragraph from the k-th paragraph on, and the last
\* chunk after it
RECURSIVE paragraph_loop(_, _, _, _, _, _, _)
paragraph_loop(paragraphs, k, current_chunk, current_paragraphs, chunks, chunk_size, overlap) ==
    IF k > Len(paragraphs)
    THEN IF current_chunk # "" THEN Append(chunks, current_chunk) ELSE chunks
    ELSE LET paragraph == paragraphs[k]
             o == overlap_paragraphs_from(current_paragraphs,
                      Len(current_paragraphs), "", << >>, overlap)
             closed == IF current_chunk # "" THEN Append(chunks, current_chunk)
                       ELSE chunks
         IN  IF Len(current_chunk) + Len(paragraph) + 2 <= chunk_size
             THEN paragraph_loop(paragraphs, k + 1,
                      IF current_chunk # "" THEN current_chunk \o "\n\n" \o paragraph
                      ELSE paragraph,
                      Append(current_paragraphs, paragraph), chunks,
                      chunk_size, overlap)
             ELSE IF overlap > 0 /\ current_paragraphs # << >>
                  THEN paragraph_loop(paragraphs, k + 1,
                           (IF o.overlap_text # "" THEN o.overlap_text \o "\n\n"
                            ELSE "") \o paragraph,
                           Append(o.overlap_paragraphs, paragraph), closed,
                           chunk_size, overlap)
                  ELSE paragraph_loop(paragraphs, k + 1, paragraph,
                           << paragraph >>, closed, chunk_size, overlap)

chunk_by_paragraph(paragraphs, chunk_size, overlap) ==
    paragraph_loop(paragraphs, 1, "", << >>, << >>, chunk_size, overlap)

\* where the chunk of the pass of _chunk_fixed_size with loop value i starts
fixed_start(i, overlap) == IF i > 0 THEN Max(0, i - overlap) ELSE i

fixed_chunk_to_end(text, i, chunk_size, overlap) ==
    Slice(text, fixed_start(i, overlap), Len(text))

\* the chunk of the pass of _chunk_fixed_size with loop value i, before it
\* is stripped
fixed_chunk(text, i, chunk_size, overlap) ==
    LET start == fixed_start(i, overlap)
        end == Min(start + chunk_size, Len(text))
        chunk == Slice(text, start, end)
        last_space == rfind_space(chunk)
    IN  IF end < Len(text) /\ CharAt(text, end + 1) # " " /\ last_space > 0
        THEN Slice(chunk, 0, last_space)
        ELSE chunk

\* the passes of the loop of _chunk_fixed_size for the loop values i,
\* i + step, ... below len(text); step is positive
RECURSIVE fixed_loop(_, _, _, _, _)
fixed_loop(text, i, chunks, chunk_size, overlap) ==
    IF i >= Len(text) THEN chunks
    ELSE LET chunk == fixed_chunk(text, i, chunk_size, overlap)
         IN  fixed_loop(text, i + (chunk_size - overlap),
                        IF strip(chunk) # "" THEN Append(chunks, strip(chunk))
                        ELSE chunks,
                        chunk_size, overlap)

\* range(0, len(text), chunk_size - overlap) raises ValueError for a step of
\* zero and is empty for a negative step
chunk_fixed_size(text, chunk_size, overlap) ==
    IF chunk_size - overlap = 0 THEN Raise
    ELSE IF chunk_size - overlap < 0 THEN Ret(<< >>)
    ELSE Ret(fixed_loop(text, 0, << >>, chunk_size, overlap))

ChunkStrategies == {"sentence", "paragraph", "fixed"}

chunk_text(text, chunk_size, overlap, chunk_strategy) ==
    IF text = "" THEN Ret(<< >>)
    ELSE IF chunk_strategy = "paragraph"
         THEN Ret(chunk_by_paragraph(split_paragraphs(text), chunk_size, overlap))
    ELSE IF chunk_strategy = "fixed"
         THEN chunk_fixed_size(normalize_whitespace(text), chunk_size, overlap)
    ELSE Ret(chunk_by_sentence(normalize_whitespace(text), chunk_size, overlap))

\* the characters the texts of a strategy are made of: a letter, the space,
\* and what the strategy splits at
ChunkAlphabet(chunk_strategy) ==
    IF chunk_strategy = "paragraph" THEN {"a", " ", "\n"}
    ELSE IF chunk_strategy = "sentence" THEN {"a", " ", "."}
    ELSE {"a", "b", " "}

RECURSIVE TextsOver(_, _)
TextsOver(alphabet, n) ==
    IF n = 0 THEN {""}
    ELSE {""} \cup {c \o t : c \in alphabet, t \in TextsOver(alphabet, n - 1)}

KInit ==
    /\ k_pc = "call"
    /\ k_strategy \in ChunkStrategies
    /\ k_text \in TextsOver(ChunkAlphabet(k_strategy), MaxText)
    /\ k_chunk_size \in 1..MaxSize
    /\ k_overlap \in 0..MaxOverlap
    /\ k_chunks = << >>
    /\ k_raised = ""
    /\ k_seeds = << >>
    /\ PipelineIdle /\ DecomposerIdle /\ RetrievalIdle /\ ConcurrentIdle
    /\ FormatIdle

KChunk ==
    /\ k_pc = "call"
    /\ LET r == chunk_text(k_text, k_chunk_size, k_overlap, k_strategy)
       IN  /\ k_raised' = IF r.raised THEN "ValueError" ELSE ""
           /\ k_chunks' = IF r.raised THEN << >> ELSE r.value
    /\ k_seeds' = IF k_text # "" /\ k_strategy = "sentence"
                  THEN sentence_loop(split_sentences(normalize_whitespace(k_text)),
                                     1, "", << >>, << >>, k_chunk_size,
                                     k_overlap).seeds
                  ELSE << >>
    /\ k_pc' = "done"
    /\ UNCHANGED <<k_text, k_chunk_size, k_overlap, k_strategy, pvars, dvars,
                   rvars, cvars, fvars>>

KNext == KChunk

SpecChunk == KInit /\ [][KNext]_vars

----------------------------------------------------------------------------
(* Properties of a pipeline run *)

PipelineFields ==
    {"query", "subqueries", "intermediate_results", "contexts", "response",
     "strategy", "model_info"}

IsPrefix(a, b) == Len(a) <= Len(b) /\ a = SubSeq(b, 1, Len(a))

RECURSIVE Flatten(_)
Flatten(irs) ==
    IF irs = << >> THEN << >> ELSE Head(irs).contexts \o Flatten(Tail(irs))

Count(seq, x) == Cardinality({i \in 1..Len(seq) : seq[i] = x})
Called(x) == \E i \in 1..Len(calls) : calls[i] = x

ExpectedStages(s) ==
    IF s = "informed"
    THEN << "INIT", "INITIAL_RETRIEVAL", "DECOMPOSE", "FAN_OUT", "AGGREGATE",
            "SYNTHESIZE", "DONE" >>
    ELSE << "INIT", "DECOMPOSE", "FAN_OUT", "AGGREGATE", "SYNTHESIZE", "DONE" >>

CallRank(c) ==
    CASE c = "initial_retrieval" -> 1
      [] c = "decompose" -> 2
      [] c = "retrieve" -> 3
      [] OTHER -> 4

\* the calls made so far are: at most one initial retrieval, then at most one
\* decomposition, then the per-subquery retrievals, then at most one synthesis;
\* once decomposition has run, an initial retrieval came before it exactly
\* under the informed strategy
CallsInOrder ==
    /\ \A i, j \in 1..Len(calls) : i < j => CallRank(calls[i]) <= CallRank(calls[j])
    /\ Count(calls, "initial_retrieval") <= 1
    /\ Count(calls, "decompose") <= 1
    /\ Count(calls, "synthesize") <= 1
    /\ Called("retrieve") => Called("decompose")
    /\ Called("synthesize") => Called("decompose")
    /\ Called("decompose") => (Called("initial_retrieval") <=> strategy = "informed")

\* lexicographic progress measure of a run: stages left, then steps left in
\* the loop over the subqueries (two per subquery, one when only the answer
\* of the pass under way is missing)
StageRank ==
    CASE pc = "INIT" -> 6
      [] pc = "INITIAL_RETRIEVAL" -> 5
      [] pc = "DECOMPOSE" -> 4
      [] pc = "FAN_OUT" -> 3
      [] pc \in {"AGGREGATE", "STANDARD_RETRIEVAL"} -> 2
      [] pc \in {"SYNTHESIZE", "STANDARD_RESPONSE"} -> 1
      [] OTHER -> 0
SubqueriesLeft ==
    IF pc = "FAN_OUT"
    THEN 2 * (Len(subqueries) + 1 - idx)
           - (IF analyzed_contents # << >> THEN 1 ELSE 0)
    ELSE 0
Progress ==
    \/ StageRank' < StageRank
    \/ StageRank' = StageRank /\ SubqueriesLeft' < SubqueriesLeft /\ SubqueriesLeft' >= 0

\* the guards of the steps of Next: a run that is not at DONE has a step to take
HasNextStep ==
    \/ pc \in {"INIT", "INITIAL_RETRIEVAL", "DECOMPOSE", "AGGREGATE", "SYNTHESIZE",
              "STANDARD_RETRIEVAL", "STANDARD_RESPONSE"}
    \/ InLoop

\* C1: every run reaches DONE and returns a result, whatever fails on the
\* way: no state of a run is ABORTED (no failure of the provider, of a
\* retrieval or of a fetch crosses the pipeline), every state before DONE
\* has a next step to take, each step strictly decreases the run's progress
\* measure (so no run goes on for ever), and a run at DONE holds a result.
C1_RunReachesDone ==
    /\ [](pc # "ABORTED")
    /\ [](pc # "DONE" => HasNextStep)
    /\ [][Progress]_vars
    /\ [](pc = "DONE" => result # NoResult)

\* a degraded run at DONE: no context was retrieved and the provider failed
\* in synthesis
C1_Witness ==
    /\ pc = "DONE"
    /\ use_agent
    /\ Called("retrieve")
    /\ result.contexts = << >>
    /\ result.response = "Error generating response: boom"

\* C2: the stages of every pipeline run are INIT, [INITIAL_RETRIEVAL], DECOMPOSE,
\* FAN_OUT, AGGREGATE, SYNTHESIZE, DONE in this order, with INITIAL_RETRIEVAL
\* exactly under the informed strategy, and the calls are ordered accordingly
\* (decomposition before the first per-subquery retrieval, one synthesis
\* after the last).
C2_StageOrder ==
    use_agent =>
        /\ IsPrefix(stages, ExpectedStages(strategy))
        /\ CallsInOrder
        /\ pc = "DONE" => Count(calls, "synthesize") = 1

\* the run that leaves the order: a deep-web informed run whose initial search
\* returns no result goes from INITIAL_RETRIEVAL straight to DONE
DeepEarlyReturn ==
    /\ backend = "deep" /\ use_agent
    /\ strategy = "informed"
    /\ stages = << "INIT", "INITIAL_RETRIEVAL", "DONE" >>
    /\ calls = << "initial_retrieval" >>
    /\ result = EarlyResult

\* every other run keeps the order of the stages and of the calls
StageOrderOutsideEarlyReturn ==
    use_agent =>
        /\ CallsInOrder
        /\ \/ C2_StageOrder
           \/ DeepEarlyReturn

\* C3: every result a pipeline run returns carries all the PipelineResult
\* fields.
C3_AllFields == (pc = "DONE" /\ use_agent) => PipelineFields \subseteq DOMAIN result

\* C4: when the fan-out is over there is one intermediate result per
\* subquery of the decomposer, in its order, after the synthetic initial
\* entry under the informed strategy.
C4_FanOutCount ==
    pc = "SYNTHESIZE" =>
        [i \in 1..Len(intermediate_results) |-> intermediate_results[i].subquery]
          = (IF strategy = "informed" THEN << InitialTag(query) >> ELSE << >>)
            \o subqueries

\* C5: the contexts of a returned result are the concatenation of the
\* contexts of its intermediate results.
C5_ContextsConcatenated ==
    (pc = "DONE" /\ "intermediate_results" \in DOMAIN result) =>
        result.contexts = Flatten(result.intermediate_results)

\* C6: under the informed strategy the contexts of the initial retrieval are
\* among the returned contexts and the initial entry is the first of the
\* (subquery, answer) pairs handed to synthesis.
C6_InitialCarried ==
    (pc = "DONE" /\ strategy = "informed" /\ Called("synthesize")) =>
        /\ \A i \in 1..Len(initial.contexts) :
              \E j \in 1..Len(result.contexts) :
                 result.contexts[j] = initial.contexts[i]
        /\ synth_input # << >>
        /\ synth_input[1].subquery = InitialTag(query)

\* C7: the reported subqueries are the decomposer's output, in its order.
C7_ReportedSubqueries ==
    (pc = "DONE" /\ Called("decompose")) => result.subqueries = subqueries

----------------------------------------------------------------------------
(* Properties of the decomposer *)

\* C8: decomposition, blind or informed, returns at least one subquery for
\* every provider response.
C8_AtLeastOne ==
    d_pc = "done" => (~ d_out.raised /\ Len(d_out.subqueries) >= 1)

\* blind decomposition of a response that holds bullet markers and
\* whitespace only
C8_Witness ==
    /\ d_pc = "done"
    /\ d_lines = << "-", " " >>
    /\ d_out.mode = "blind"
    /\ d_out.outcome.kind = "text"
    /\ d_out.subqueries = << d_query >>

\* C9: the returned subqueries are non-empty and pairwise distinct.
C9_UniqueNonEmpty ==
    d_pc = "done" =>
        /\ \A i \in 1..Len(d_out.subqueries) : d_out.subqueries[i] # ""
        /\ \A i, j \in 1..Len(d_out.subqueries) :
              i # j => d_out.subqueries[i] # d_out.subqueries[j]

\* C10: at most 4 subqueries are returned.
C10_AtMostFour == d_pc = "done" => Len(d_out.subqueries) <= 4

\* the text the decomposer received from the provider wrapper
DResponse == generate_response(d_out.outcome).value

\* C11: when no line of the response parses, blind decomposition returns the
\* query alone and informed decomposition returns the two templated
\* follow-ups of the query, web or document wording by the flag.
C11_Fallbacks ==
    (d_pc = "done" /\ parse_subqueries(DResponse) = << >>) =>
        d_out.subqueries =
            IF d_out.mode = "blind" THEN << d_query >>
            ELSE IF d_out.web
                 THEN << d_query \o " latest information",
                         d_query \o " alternative perspectives" >>
                 ELSE << "What additional details can be found about "
                            \o d_query \o "?",
                         "Are there any alternative perspectives on "
                            \o d_query \o "?" >>

\* informed web decomposition of a response of an empty line and a marker
C11_Witness ==
    /\ d_pc = "done"
    /\ d_query = "q"
    /\ d_lines = << "", "-" >>
    /\ d_out.mode = "informed"
    /\ d_out.web
    /\ d_out.outcome.kind = "text"
    /\ d_out.subqueries = << "q latest information", "q alternative perspectives" >>

\* C12: when the provider call of blind decomposition fails, the query is
\* returned as the only subquery.
C12_ProviderFailureFallsBack ==
    (d_pc = "done" /\ d_out.mode = "blind" /\ d_out.outcome.kind = "raise") =>
        d_out.subqueries = << d_query >>

----------------------------------------------------------------------------
(* Properties of failure handling in a pipeline run *)

\* the synthesis step of a run returns: the run is at DONE with an answer, and
\* the result holds the intermediate results and the contexts as they were
\* before the step
SynthesisReturns ==
    pc = "SYNTHESIZE" =>
        /\ pc' = "DONE"
        /\ result'.response # ""
        /\ result'.intermediate_results = intermediate_results
        /\ result'.contexts = all_contexts

\* C13: synthesis never raises; whatever the provider does in the final
\* synthesis call, a throw included, the run returns a result with a
\* non-empty answer (the diagnostic string on a throw) and with the
\* intermediate results and contexts gathered before synthesis.
C13_SynthesisNeverRaises ==
    /\ [][SynthesisReturns]_vars
    /\ [](pc = "DONE" /\ Called("synthesize") => result.response # "")

\* a run at DONE whose synthesis call threw after contexts had been gathered
C13_Witness ==
    /\ pc = "DONE"
    /\ Called("synthesize")
    /\ result.response = "Error generating response: boom"
    /\ Len(result.intermediate_results) >= 2
    /\ result.contexts # << >>

\* a retrieval of the loop that found no context still appends the entry of
\* its subquery, with an empty context list, and the loop goes on
EmptyRetrievalKeepsEntry ==
    (InLoop /\ analyzed_contents = << >> /\ all_contexts' = all_contexts) =>
        /\ Len(intermediate_results') = Len(intermediate_results) + 1
        /\ SubSeq(intermediate_results', 1, Len(intermediate_results))
              = intermediate_results
        /\ intermediate_results'[Len(intermediate_results')].subquery
              = subqueries[idx]
        /\ intermediate_results'[Len(intermediate_results')].contexts = << >>
        /\ idx' = idx + 1
        /\ pc' \in {"FAN_OUT", "AGGREGATE"}

\* C14: a subquery whose retrieval returns nothing or fails still contributes
\* an intermediate result with an empty context list, and the run goes on to
\* the remaining subqueries, for the document, web and deep-web backends.
C14_EmptyRetrievalPlaceholder == [][EmptyRetrievalKeepsEntry]_vars

----------------------------------------------------------------------------
(* Properties of one deep-web retrieval *)

\* the page of this url has an entry in the analyzed contents, and once the
\* entry of the subquery is built, in its contexts
AnalyzedUrl(url) == \E k \in 1..Len(r_analyzed) : r_analyzed[k].url = url
ContextUrl(url) ==
    \E e \in 1..Len(r_entry) :
        \E k \in 1..Len(r_entry[e].contexts) : r_entry[e].contexts[k].url = url
RAnalysisDone == r_pc \in {"answer", "done"} /\ r_results # << >>

\* C15: a page whose fetch failed, or whose summarization call failed, has no
\* entry in the analyzed contents or in the contexts of the subquery, and
\* every other page of the subquery has one.
C15_FailedPagesDropped ==
    RAnalysisDone =>
        /\ \A i \in 1..Len(r_urls) :
              ~ Succeeded(r_fetch[i].content) =>
                  ~ AnalyzedUrl(r_urls[i]) /\ ~ ContextUrl(r_urls[i])
        /\ \A k \in 1..Len(r_scraped) :
              r_llm[k].kind = "raise" =>
                  ~ AnalyzedUrl(r_scraped[k].url) /\ ~ ContextUrl(r_scraped[k].url)
        /\ \A k \in 1..Len(r_scraped) :
              r_llm[k].kind = "text" =>
                  /\ AnalyzedUrl(r_scraped[k].url)
                  /\ r_pc = "done" => ContextUrl(r_scraped[k].url)

\* C16: a subquery whose search returned results but none of whose pages was
\* successfully summarized gets an entry with the fixed placeholder answer
\* and no context, and no provider call is made for its answer.
C16_PlaceholderWithoutCall ==
    (r_pc = "done" /\ r_results # << >>
       /\ \A k \in 1..Len(r_scraped) : r_llm[k].kind = "raise") =>
        /\ Len(r_entry) = 1
        /\ r_entry[1].answer = "No detailed information found for 'a'"
        /\ r_entry[1].contexts = << >>
        /\ \A c \in 1..Len(r_calls) : r_calls[c] # "answer"

\* C17: never more than max_workers fetches are running, in the sequential
\* loop never more than one, and never more than max_results_to_scrape urls
\* are handed to the fetcher for a subquery, however many results the search
\* returned.
C17_BoundedFetches ==
    /\ Cardinality(InFlight) <= r_max_workers
    /\ ~ (r_parallel /\ Len(r_urls) > 1) => Cardinality(InFlight) <= 1
    /\ Len(r_urls) <= max_results_to_scrape
    /\ Cardinality(Fetched) <= max_results_to_scrape

\* the search returned more results than are fetched, and a fetch waits in the
\* queue while every worker of the pool is busy
C17_Witness ==
    /\ r_pc = "scrape"
    /\ r_parallel
    /\ Len(r_results) > max_results_to_scrape
    /\ Cardinality(InFlight) = r_max_workers
    /\ Queued # {}

\* the rank of a url in the search results of the subquery
ResultRank(url) == CHOOSE i \in 1..Len(r_results) : r_results[i].url = url

\* C18: the contexts of the subquery are in the order in which the search
\* returned the corresponding results, whatever the order in which the
\* pool's fetches complete.
C18_ContextsInSearchOrder ==
    (r_pc = "done" /\ Len(r_entry) = 1) =>
        \A j, k \in 1..Len(r_entry[1].contexts) :
            j < k => ResultRank(r_entry[1].contexts[j].url)
                       < ResultRank(r_entry[1].contexts[k].url)

----------------------------------------------------------------------------
(* Properties of two concurrent runs *)

RECURSIVE AccumulateAll(_, _, _)
AccumulateAll(in, acc, sqs) ==
    IF sqs = << >> THEN acc
    ELSE AccumulateAll(in, c_accumulate(in, acc, Head(sqs)), Tail(sqs))

\* the result of the run of these inputs when no other run executes
RunAlone(in) ==
    c_result(in,
             AccumulateAll(in, EmptyAccumulators,
                 decompose_query(in.query, ProviderText(in.decomposition),
                                 FALSE).value),
             synthesize_answer(c_synthesis_outcome(in)).value)

\* C19: under every interleaving of the steps of two runs, a finished run
\* returns the result it returns when run alone on the same collaborator
\* responses, and its intermediate results are those of its own subqueries,
\* one each and in order.
C19_RunsIndependent ==
    \A r \in Runs :
        c_run[r].pc = "DONE" =>
            /\ c_run[r].result = RunAlone(c_run[r].inputs)
            /\ [i \in 1..Len(c_run[r].result.intermediate_results) |->
                   c_run[r].result.intermediate_results[i].subquery]
                 = c_run[r].subqueries

\* run 1 finished after run 2 made a pass of its loop between two passes of
\* the loop of run 1, both runs having retrieved contexts
C19_Witness ==
    /\ c_run # << >>
    /\ c_run[1].pc = "DONE"
    /\ c_run[2].pc = "FAN_OUT" /\ c_run[2].idx = 2
    /\ Len(c_run[1].result.contexts) >= 2
    /\ c_acc[2].all_contexts # << >>

----------------------------------------------------------------------------
(* Properties of format_context *)

\* the first n entries of a ranking, each formatted whole under its rank
RECURSIVE WholeEntries(_, _)
WholeEntries(ranked, n) ==
    IF n = 0 THEN ""
    ELSE WholeEntries(ranked, n - 1) \o context_block(n, ranked[n])

\* the rankings of the contexts by descending relevance score
Rankings(contexts) ==
    {[i \in 1..Len(contexts) |-> contexts[p[i]]] : p \in Orders(Len(contexts))}

Descending(ranked) ==
    \A i, j \in 1..Len(ranked) : i < j => ranked[i].score >= ranked[j].score

\* C20: the output of format_context is no longer than the budget plus the
\* truncation note, and it is the header, then the first entries of the
\* contexts ranked by descending score, each entry whole, then possibly the
\* truncation note.
C20_BudgetAndWholeEntries ==
    f_pc = "done" =>
        /\ Len(f_out) <= f_max_length + Len(truncation_note)
        /\ \E ranked \in Rankings(f_contexts) :
              /\ Descending(ranked)
              /\ \E n \in 0..Len(ranked) :
                    \/ f_out = context_header \o WholeEntries(ranked, n)
                    \/ f_out = context_header \o WholeEntries(ranked, n)
                                  \o truncation_note

\* a call whose budget is filled exactly by two entries of three: the third
\* is left out and the output has the greatest length allowed
C20_Witness ==
    /\ f_pc = "done"
    /\ Len(f_contexts) = 3
    /\ f_out = context_header
                 \o WholeEntries(sorted_by_score(f_contexts), 2)
                 \o truncation_note
    /\ Len(f_out) = f_max_length + Len(truncation_note)

\* s ends with suffix
EndsWith(s, suffix) ==
    /\ Len(s) >= Len(suffix)
    /\ SubSeq(s, Len(s) - Len(suffix) + 1, Len(s)) = suffix

\* C21: whenever format_context leaves at least one context out of its
\* output, the output ends with the truncation marker, also when the
\* highest-ranked entry alone exceeds the budget.
C21_TruncationMarked ==
    (f_pc = "done" /\ f_contexts # << >>
        /\ f_out # context_header
                     \o WholeEntries(sorted_by_score(f_contexts), Len(f_contexts)))
        => EndsWith(f_out, truncation_note)

\* the part of C21 that the code keeps: once one entry has been written, a
\* left-out entry is marked, and nothing follows the marker
C21_MarkedAfterFirstEntry ==
    (f_pc = "done" /\ f_contexts # << >>
        /\ ~ exceeds(Len(context_header),
                     context_block(1, sorted_by_score(f_contexts)[1]), f_max_length)
        /\ f_out # context_header
                     \o WholeEntries(sorted_by_score(f_contexts), Len(f_contexts)))
        => EndsWith(f_out, truncation_note)

----------------------------------------------------------------------------
(* Properties of _scrape_urls *)

\* the pages of the first k fetches that returned a result with success = true
RECURSIVE SuccessfulPages(_)
SuccessfulPages(k) ==
    IF k = 0 THEN << >>
    ELSE SuccessfulPages(k - 1)
           \o (IF r_fetch[k].content # None /\ r_fetch[k].content.success
               THEN << r_fetch[k].content >> ELSE << >>)

SameMultiset(a, b) ==
    /\ Len(a) = Len(b)
    /\ \A i \in 1..Len(a) : Count(a, a[i]) = Count(b, a[i])

\* C29: in parallel and in sequential mode alike, _scrape_urls returns the
\* pages of the fetches that returned success = true, each once: what it
\* returns depends on the urls and the fetch outcomes only, up to order.
C29_SameMultisetInBothModes ==
    (r_pc \in {"analyze", "answer", "done"} /\ r_urls # << >>) =>
        SameMultiset(r_scraped, SuccessfulPages(Len(r_fetch)))

\* a parallel call whose second fetch was consumed first: the pages are
\* returned in another order than the sequential loop returns them
C29_Witness ==
    /\ r_pc = "analyze" /\ r_parallel
    /\ Len(r_urls) = 2 /\ Len(r_scraped) = 2
    /\ r_scraped[1] = r_fetch[2].content
    /\ r_scraped[2] = r_fetch[1].content

\* C30: when the summarization of a subquery starts, and from then until
\* the pass of the loop for the subquery ends (the next subquery begins or
\* the run returns), every fetch submitted for it has finished and has been
\* consumed: none is queued or running.
C30_FetchesDoneBeforeAnalysis ==
    r_pc \in {"analyze", "answer", "done"} =>
        /\ InFlight = {} /\ Queued = {}
        /\ \A i \in 1..Len(r_fetch) : r_fetch[i].state = "consumed"

\* summarization is about to start after two fetches ran on a pool of at
\* least two workers
C30_Witness ==
    /\ r_pc = "analyze" /\ r_parallel /\ r_max_workers >= 2
    /\ Len(r_fetch) = 2
    /\ r_scraped # << >>

----------------------------------------------------------------------------
(* Properties of chunk_text *)

\* C22: chunk_text raises for no text, chunk_size >= 1, overlap >= 0 and
\* strategy, and returns the empty list for the empty text.
C22_ChunkNeverRaises ==
    k_pc = "done" =>
        /\ k_raised = ""
        /\ k_text = "" => k_chunks = << >>

\* the part of C22 that the code keeps: no call with overlap other than
\* chunk_size raises, and the empty text gives the empty list
C22_RaisesOnlyOnEqualOverlap ==
    k_pc = "done" =>
        /\ k_raised # "" => (k_strategy = "fixed" /\ k_overlap = k_chunk_size
                               /\ k_text # "")
        /\ k_text = "" => k_chunks = << >>

\* C23: a call with overlap >= chunk_size returns what the call with
\* overlap = chunk_size - 1 returns.
C23_OverlapClamped ==
    (k_pc = "done" /\ k_overlap >= k_chunk_size) =>
        /\ k_raised = ""
        /\ k_chunks = chunk_text(k_text, k_chunk_size, k_chunk_size - 1,
                                 k_strategy).value

\* C24: with the fixed strategy and overlap < chunk_size, every chunk but
\* the last is at most chunk_size characters long.
C24_FixedChunksWithinSize ==
    (k_pc = "done" /\ k_strategy = "fixed" /\ k_overlap < k_chunk_size) =>
        \A j \in 1..(Len(k_chunks) - 1) : Len(k_chunks[j]) <= k_chunk_size

\* a fixed-size call on a text longer than chunk_size that returned several
\* chunks, one of them not the last and exactly chunk_size long
C24_Witness ==
    /\ k_pc = "done" /\ k_strategy = "fixed" /\ k_overlap < k_chunk_size
    /\ Len(normalize_whitespace(k_text)) > k_chunk_size
    /\ Len(k_chunks) >= 2
    /\ \E j \in 1..(Len(k_chunks) - 1) : Len(k_chunks[j]) = k_chunk_size

\* C25: with every strategy, every chunk but the last is at most chunk_size
\* characters long (stated for overlap < chunk_size, which the claim
\* includes).
C25_ChunksWithinSize ==
    (k_pc = "done" /\ k_overlap < k_chunk_size) =>
        \A j \in 1..(Len(k_chunks) - 1) : Len(k_chunks[j]) <= k_chunk_size

\* some non-empty suffix of a is a prefix of b
SharesOverlap(a, b) ==
    \E n \in 1..Min(Len(a), Len(b)) :
        Slice(a, Len(a) - n, Len(a)) = Slice(b, 0, n)

\* C26: with the sentence or the paragraph strategy and overlap > 0, a
\* non-empty suffix of every chunk is a prefix of the chunk after it.
C26_ConsecutiveChunksOverlap ==
    (k_pc = "done" /\ k_strategy \in {"sentence", "paragraph"}
        /\ k_overlap > 0 /\ k_overlap < k_chunk_size) =>
        \A j \in 1..(Len(k_chunks) - 1) : SharesOverlap(k_chunks[j], k_chunks[j + 1])

\* the character at 0-based position i of text lies in an occurrence of one
\* of the chunks in text
InSomeChunk(text, i, chunks) ==
    \E j \in 1..Len(chunks) : \E s \in 0..i :
        /\ i < s + Len(chunks[j])
        /\ s + Len(chunks[j]) <= Len(text)
        /\ Slice(text, s, s + Len(chunks[j])) = chunks[j]

\* C27: the chunks cover the whitespace-normalized text: every character of
\* it that is no space lies in a chunk (stated for the fixed strategy, whose
\* chunks are slices of the normalized text, and overlap < chunk_size).
C27_ChunksCoverText ==
    (k_pc = "done" /\ k_strategy = "fixed" /\ k_overlap < k_chunk_size) =>
        LET text == normalize_whitespace(k_text)
        IN  \A i \in 0..(Len(text) - 1) :
                CharAt(text, i + 1) # " " => InSomeChunk(text, i, k_chunks)

\* C28: in the sentence strategy the text carried from a closed chunk into
\* the next one is a suffix of the closed chunk, starts at a word boundary
\* and has at most overlap characters (stated for overlap < chunk_size).
C28_SeedIsBoundedSuffix ==
    (k_pc = "done" /\ k_strategy = "sentence" /\ k_overlap < k_chunk_size) =>
        \A e \in 1..Len(k_seeds) :
            LET closed == k_seeds[e].closed
                seed == k_seeds[e].overlap_text
                at == Len(closed) - Len(seed)
            IN  /\ Slice(closed, at, Len(closed)) = seed
                /\ Len(seed) <= k_overlap
                /\ seed = "" \/ at = 0 \/ CharAt(closed, at) = " "

====
